---- MODULE Spec2Model ----
(***************************************************************************)
(* Model of src/src/gear.js: the kinematic state of a tree of meshed spur  *)
(* gears (class Gear) and the involute sampler (generateInvoluteCurve).    *)
(*                                                                         *)
(* Real numbers are exact rationals <<n, d>> (d > 0, lowest terms).        *)
(* Angles are counted in quarter turns, so PI is 2 and cos/sin of the      *)
(* attach azimuths used here are exact.                                    *)
(***************************************************************************)
EXTENDS Integers, Sequences, FiniteSets, TLC

VARIABLES gears, nops, pending, roundAngle, nrounds,
          pc, baseRadius, maxRadius, t, point, pointsArray

gearVars == <<gears, nops, pending, roundAngle, nrounds>>
involuteVars == <<pc, baseRadius, maxRadius, t, point, pointsArray>>
vars == <<gears, nops, pending, roundAngle, nrounds,
          pc, baseRadius, maxRadius, t, point, pointsArray>>

---------------------------------------------------------------------------
(* Bounds of the model                                                     *)

MaxGears == 3
MaxOps == 1
MaxRounds == 2
MaxBase == 3
MaxExtra == 2

---------------------------------------------------------------------------
(* Exact rational arithmetic                                               *)

Abs(n) == IF n < 0 THEN -n ELSE n

RECURSIVE GCD(_, _)
GCD(a, b) == IF b = 0 THEN a ELSE GCD(b, a % b)

R(n, d) ==
    LET s == IF d < 0 THEN -1 ELSE 1
        g == GCD(Abs(n), Abs(d))
    IN  <<(s * n) \div g, (s * d) \div g>>

I(n) == <<n, 1>>
RAdd(a, b) == R(a[1] * b[2] + b[1] * a[2], a[2] * b[2])
RSub(a, b) == R(a[1] * b[2] - b[1] * a[2], a[2] * b[2])
RMul(a, b) == R(a[1] * b[1], a[2] * b[2])
RLess(a, b) == a[1] * b[2] < b[1] * a[2]

---------------------------------------------------------------------------
(* Constants of the program                                                *)

INVOLUTE_STEP == R(1, 20)
PI == I(2)
DefaultMod == 3
DefaultPressureAngleDeg == 20
NoPinion == 0

\* cos and sin of an angle of k quarter turns
cos(k) == CASE k % 4 = 0 -> 1 [] k % 4 = 1 -> 0 [] k % 4 = 2 -> -1 [] OTHER -> 0
sin(k) == CASE k % 4 = 0 -> 0 [] k % 4 = 1 -> 1 [] k % 4 = 2 -> 0 [] OTHER -> -1

---------------------------------------------------------------------------
(* Inputs the callers draw from                                            *)

RootTeeth == {20}
ChildTeeth == {5, 10}
Mods == {2, DefaultMod}
Azimuths == {0, 1}
DriveAngles == {1}
RoundAngles == {1, 3}
Positions == {<<1, 2>>}

Ids == 1..Len(gears)

---------------------------------------------------------------------------
(* class Gear                                                              *)

\* createGeometry: a fresh THREE.Mesh, at the origin and unrotated
createGeometry == [rotation |-> I(0), x |-> I(0), y |-> I(0)]

\* get rotation()
rotation(gear) == gear.mesh.rotation

\* set rotation(rot)
setRotation(gear, rot) == [gear EXCEPT !.mesh.rotation = rot]

\* calculateRatio with the sense of rotation not reversed
calculateRatio_sameSense(gs, gear) ==
    IF gear.pinion # NoPinion
    THEN LET ratio == R(gs[gear.pinion].teeth, gear.teeth)
         IN  [gear EXCEPT !.ratio = ratio,
                          !.rotationSpeed =
                              RMul(gs[gear.pinion].rotationSpeed, ratio)]
    ELSE [gear EXCEPT !.ratio = I(1), !.rotationSpeed = I(1)]

\* calculateRatio with the ratio taken as teeth / pinion.teeth
calculateRatio_inverted(gs, gear) ==
    IF gear.pinion # NoPinion
    THEN LET ratio == R(gear.teeth, gs[gear.pinion].teeth)
         IN  [gear EXCEPT !.ratio = ratio,
                          !.rotationSpeed =
                              RMul(RMul(I(-1), gs[gear.pinion].rotationSpeed), ratio)]
    ELSE [gear EXCEPT !.ratio = I(1), !.rotationSpeed = I(1)]

calculateRatio(gs, gear) ==
    IF gear.pinion # NoPinion
    THEN LET ratio == R(gs[gear.pinion].teeth, gear.teeth)
         IN  [gear EXCEPT !.ratio = ratio,
                          !.rotationSpeed =
                              RMul(RMul(I(-1), gs[gear.pinion].rotationSpeed), ratio)]
    ELSE [gear EXCEPT !.ratio = I(1), !.rotationSpeed = I(1)]

\* constructor(teeth, mod, pressureAngleDeg, pinion)
Gear(gs, teeth, mod, pressureAngleDeg, pinion) ==
    calculateRatio(gs,
        [teeth |-> teeth, mod |-> mod, pressureAngleDeg |-> pressureAngleDeg,
         mesh |-> createGeometry,
         angle |-> 0, x |-> I(0), y |-> I(0),
         childGears |-> {},
         pinion |-> pinion,
         ratio |-> I(0), rotationSpeed |-> I(0)])

setPosition(gear, x, y) ==
    [gear EXCEPT !.x = x, !.y = y, !.mesh.x = x, !.mesh.y = y]

\* positionGear measuring the offset from the origin, not from the pinion
positionGear_fromOrigin(gs, gear) ==
    IF gear.pinion # NoPinion
    THEN LET centreDistance ==
                 R(gear.mod * gear.teeth + gear.mod * gs[gear.pinion].teeth, 2)
             offsetX == RMul(centreDistance, I(cos(gear.angle)))
             offsetY == RMul(centreDistance, I(sin(gear.angle)))
         IN  setPosition(gear, offsetX, offsetY)
    ELSE gear

positionGear(gs, gear) ==
    IF gear.pinion # NoPinion
    THEN LET centreDistance ==
                 R(gear.mod * gear.teeth + gear.mod * gs[gear.pinion].teeth, 2)
             offsetX == RMul(centreDistance, I(cos(gear.angle)))
             offsetY == RMul(centreDistance, I(sin(gear.angle)))
         IN  setPosition(gear, RAdd(gs[gear.pinion].x, offsetX),
                               RAdd(gs[gear.pinion].y, offsetY))
    ELSE gear

\* rotateGear without the correction for the pinion's rotation
rotateGear_ignorePinion(gs, gear) ==
    IF gear.pinion # NoPinion
    THEN LET r1 == setRotation(gear, RAdd(rotation(gear), RAdd(PI, I(gear.angle))))
         IN  setRotation(r1, RAdd(rotation(r1), RMul(I(gear.angle), gear.ratio)))
    ELSE gear

rotateGear(gs, gear) ==
    IF gear.pinion # NoPinion
    THEN LET r1 == setRotation(gear, RAdd(rotation(gear), RAdd(PI, I(gear.angle))))
         IN  setRotation(r1,
                 RAdd(rotation(r1),
                      RMul(RSub(I(gear.angle), rotation(gs[gear.pinion])), gear.ratio)))
    ELSE gear

\* this.addGear(teeth, angle) on gear p: the arena after the call; the new
\* gear is the last one
addGear(gs, p, teeth, angle) ==
    LET newGear == Gear(gs, teeth, gs[p].mod, gs[p].pressureAngleDeg, p)
        id == Len(gs) + 1
        gs1 == [gs EXCEPT ![p].childGears = @ \cup {id}]
        g1 == [newGear EXCEPT !.angle = angle]
        g2 == positionGear(gs1, g1)
        g3 == rotateGear(gs1, g2)
    IN  Append(gs1, g3)

\* driveBy that also turns the children of the gear
driveBy_children(gs, g, angle) ==
    [h \in DOMAIN gs |->
        IF h = g \/ h \in gs[g].childGears
        THEN setRotation(gs[h],
                 RAdd(rotation(gs[h]), RMul(I(angle), gs[h].rotationSpeed)))
        ELSE gs[h]]

driveBy(gs, g, angle) ==
    [gs EXCEPT ![g] = setRotation(@, RAdd(rotation(@), RMul(I(angle), @.rotationSpeed)))]

\* reset(): the parameters are recomputed from the same teeth, mod and
\* pressure angle, and createGeometry replaces this.mesh
reset(gs, g) == [gs EXCEPT ![g].mesh = createGeometry]

---------------------------------------------------------------------------
(* Operations on the gear tree                                             *)

Construct(teeth, mod, pinion) ==
    /\ Len(gears) < MaxGears
    /\ gears' = Append(gears, Gear(gears, teeth, mod, DefaultPressureAngleDeg, pinion))
    /\ UNCHANGED <<nops, pending, roundAngle, nrounds>>
    /\ UNCHANGED involuteVars

AddGear(p, teeth, angle) ==
    /\ Len(gears) < MaxGears
    /\ gears' = addGear(gears, p, teeth, angle)
    /\ UNCHANGED <<nops, pending, roundAngle, nrounds>>
    /\ UNCHANGED involuteVars

SetPosition(g, x, y) ==
    /\ nops < MaxOps
    /\ gears' = [gears EXCEPT ![g] = setPosition(@, I(x), I(y))]
    /\ nops' = nops + 1
    /\ UNCHANGED <<pending, roundAngle, nrounds>>
    /\ UNCHANGED involuteVars

DriveBy(g, angle) ==
    /\ nops < MaxOps
    /\ gears' = driveBy(gears, g, angle)
    /\ nops' = nops + 1
    /\ UNCHANGED <<pending, roundAngle, nrounds>>
    /\ UNCHANGED involuteVars

Reset(g) ==
    /\ nops < MaxOps
    /\ gears' = reset(gears, g)
    /\ nops' = nops + 1
    /\ UNCHANGED <<pending, roundAngle, nrounds>>
    /\ UNCHANGED involuteVars

InitGears ==
    /\ gears = <<>>
    /\ nops = 0
    /\ pending = {}
    /\ roundAngle = 0
    /\ nrounds = 0

InvoluteIdle ==
    /\ pc = "idle"
    /\ baseRadius = 0
    /\ maxRadius = 0
    /\ t = I(0)
    /\ point = <<>>
    /\ pointsArray = <<>>

Init == InitGears /\ InvoluteIdle

Next ==
    \/ \E teeth \in RootTeeth : Construct(teeth, DefaultMod, NoPinion)
    \/ \E mod \in Mods, pinion \in Ids : Construct(10, mod, pinion)
    \/ \E p \in Ids, teeth \in ChildTeeth, angle \in Azimuths : AddGear(p, teeth, angle)
    \/ \E g \in Ids, pos \in Positions : SetPosition(g, pos[1], pos[2])
    \/ \E g \in Ids, angle \in DriveAngles : DriveBy(g, angle)
    \/ \E g \in Ids : Reset(g)

Spec == Init /\ [][Next]_vars

---------------------------------------------------------------------------
(* Uniform driving: the caller turns every gear of the tree by the same    *)
(* angle, one driveBy call per gear, in any order                          *)

BeginRound(angle) ==
    /\ pending = {}
    /\ Len(gears) > 0
    /\ nrounds < MaxRounds
    /\ pending' = Ids
    /\ roundAngle' = angle
    /\ nrounds' = nrounds + 1
    /\ UNCHANGED <<gears, nops>>
    /\ UNCHANGED involuteVars

DriveInRound(g) ==
    /\ g \in pending
    /\ gears' = driveBy(gears, g, roundAngle)
    /\ pending' = pending \ {g}
    /\ UNCHANGED <<nops, roundAngle, nrounds>>
    /\ UNCHANGED involuteVars

NextRounds ==
    \/ \E teeth \in RootTeeth : pending = {} /\ Construct(teeth, DefaultMod, NoPinion)
    \/ \E p \in Ids, teeth \in ChildTeeth, angle \in Azimuths :
           pending = {} /\ AddGear(p, teeth, angle)
    \/ \E angle \in RoundAngles : BeginRound(angle)
    \/ \E g \in Ids : DriveInRound(g)

SpecRounds == Init /\ [][NextRounds]_vars

---------------------------------------------------------------------------
(* generateInvoluteCurve(baseRadius, maxRadius, step = INVOLUTE_STEP)      *)
(*                                                                         *)
(* A point of the involute is kept as its squared parameter tSq and its    *)
(* squared distance from the origin, baseRadius^2 * (1 + t^2): the         *)
(* parameter of the end point, a square root, need not be rational.        *)

involutePoint(tSq, b) == [tSq |-> tSq, lengthSq |-> RMul(I(b * b), RAdd(I(1), tSq))]

\* point.length() < maxRadius, both sides being non-negative
shorterThan(pt, m) == RLess(pt.lengthSq, I(m * m))

endPointParamSq(b, m) == RSub(R(m * m, b * b), I(1))

InitInvolute ==
    /\ InitGears
    /\ pc = "start"
    /\ baseRadius \in 1..MaxBase
    /\ maxRadius \in baseRadius..(baseRadius + MaxExtra)
    /\ t = I(0)
    /\ point = <<>>
    /\ pointsArray = <<>>

InvoluteStart ==
    /\ pc = "start"
    /\ pointsArray' = <<>>
    /\ t' = I(0)
    /\ point' = involutePoint(RMul(I(0), I(0)), baseRadius)
    /\ pc' = "loop"
    /\ UNCHANGED <<baseRadius, maxRadius>>
    /\ UNCHANGED gearVars

InvoluteLoop ==
    /\ pc = "loop"
    /\ shorterThan(point, maxRadius)
    /\ point' = involutePoint(RMul(t, t), baseRadius)
    /\ pointsArray' = Append(pointsArray, point')
    /\ t' = RAdd(t, INVOLUTE_STEP)
    /\ UNCHANGED <<pc, baseRadius, maxRadius>>
    /\ UNCHANGED gearVars

InvoluteEnd ==
    /\ pc = "loop"
    /\ ~shorterThan(point, maxRadius)
    /\ point' = involutePoint(endPointParamSq(baseRadius, maxRadius), baseRadius)
    /\ pointsArray' = Append(pointsArray, point')
    /\ pc' = "done"
    /\ UNCHANGED <<t, baseRadius, maxRadius>>
    /\ UNCHANGED gearVars

NextInvolute == InvoluteStart \/ InvoluteLoop \/ InvoluteEnd

SpecInvolute == InitInvolute /\ [][NextInvolute]_vars

---------------------------------------------------------------------------
(* Properties                                                              *)

\* g was attached by addGear: it has a pinion that lists it as a child
Attached(g) ==
    /\ gears[g].pinion # NoPinion
    /\ g \in gears[gears[g].pinion].childGears

RECURSIVE TransitivePinions(_, _)
TransitivePinions(g, fuel) ==
    IF fuel = 0 \/ gears[g].pinion = NoPinion
    THEN {}
    ELSE {gears[g].pinion} \cup TransitivePinions(gears[g].pinion, fuel - 1)

RECURSIVE Depth(_)
Depth(g) == IF gears[g].pinion = NoPinion THEN 0 ELSE 1 + Depth(gears[g].pinion)

\* the sum of the two pitch radii of g and its pinion
PitchRadiiSum(g) ==
    R(gears[g].mod * (gears[g].teeth + gears[gears[g].pinion].teeth), 2)

\* the value the phase lock gives c.rotation + c.ratio * p.rotation
LockPhase(g) ==
    RAdd(RAdd(PI, I(gears[g].angle)), RMul(I(gears[g].angle), gears[g].ratio))

\* C1: c = p.addGear(teeth, 0) leaves c.x = p.x + p.mod * (teeth + p.teeth) / 2
\* and c.y = p.y, whatever p's position and rotation were before the call.
C1_AddGearAngleZero ==
    [][\A p \in Ids, teeth \in ChildTeeth :
          AddGear(p, teeth, 0) =>
              LET c == gears'[Len(gears')]
              IN  /\ c.x = RAdd(gears[p].x,
                                R(gears[p].mod * (teeth + gears[p].teeth), 2))
                  /\ c.y = gears[p].y]_vars

\* C1 witness: a gear added at angle 0 to a pinion that had been moved to
\* (1, 2) and whose rotation was not 0; the 5-tooth child of the 10-tooth
\* pinion of module 3 sits at x = 1 + 3 * 15 / 2.
C1_Witness ==
    \E c \in Ids :
        /\ Attached(c)
        /\ gears[c].angle = 0
        /\ gears[c].teeth = 5
        /\ gears[gears[c].pinion].teeth = 10
        /\ gears[gears[c].pinion].mod = DefaultMod
        /\ gears[gears[c].pinion].x = I(1)
        /\ gears[gears[c].pinion].y = I(2)
        /\ rotation(gears[gears[c].pinion]) # I(0)
        /\ gears[c].x = R(47, 2)
        /\ gears[c].y = I(2)

\* C2: every gear without a pinion has ratio 1 and rotationSpeed 1; every gear
\* g with pinion p has ratio p.teeth / g.teeth and rotationSpeed
\* -ratio * p.rotationSpeed, so the sign of rotationSpeed alternates with the
\* depth in the tree.
C2_RatioAndSpeed ==
    \A g \in Ids :
        /\ gears[g].pinion = NoPinion =>
               gears[g].ratio = I(1) /\ gears[g].rotationSpeed = I(1)
        /\ gears[g].pinion # NoPinion =>
               /\ gears[g].ratio = R(gears[gears[g].pinion].teeth, gears[g].teeth)
               /\ gears[g].rotationSpeed =
                      RMul(I(-1), RMul(gears[g].ratio,
                                       gears[gears[g].pinion].rotationSpeed))
        /\ (gears[g].rotationSpeed[1] > 0) <=> (Depth(g) % 2 = 0)
        /\ gears[g].rotationSpeed[1] # 0

\* C2 witness: a 10-tooth child of a 20-tooth root, with ratio 2 and speed -2,
\* that has a child of its own turning the other way.
C2_Witness ==
    \E g \in Ids, h \in Ids :
        /\ Attached(g)
        /\ gears[g].teeth = 10
        /\ gears[gears[g].pinion].teeth = 20
        /\ gears[gears[g].pinion].pinion = NoPinion
        /\ gears[g].ratio = I(2)
        /\ gears[g].rotationSpeed = I(-2)
        /\ gears[h].pinion = g
        /\ gears[h].rotationSpeed[1] > 0

\* a root of 20 teeth, mid = root.addGear(10, a1), leaf = mid.addGear(5, a2)
Chain(root, mid, leaf) ==
    /\ gears[root].pinion = NoPinion /\ gears[root].teeth = 20
    /\ Attached(mid) /\ gears[mid].pinion = root /\ gears[mid].teeth = 10
    /\ Attached(leaf) /\ gears[leaf].pinion = mid /\ gears[leaf].teeth = 5

\* C3 as stated: in the tree root(20) -> mid(10) -> leaf(5) the leaf's
\* rotationSpeed is 0.25.
C3_LeafSpeedQuarter ==
    \A root \in Ids, mid \in Ids, leaf \in Ids :
        Chain(root, mid, leaf) => gears[leaf].rotationSpeed = R(1, 4)

\* C3 amended: in the tree root(20) -> mid(10) -> leaf(5), whatever the two
\* azimuths, the leaf's rotationSpeed is 4 = (-20/10) * (-10/5): the two sign
\* flips cancel and the ratios pinion.teeth / teeth multiply.
C3_LeafSpeedFour ==
    \A root \in Ids, mid \in Ids, leaf \in Ids :
        Chain(root, mid, leaf) =>
            /\ gears[mid].rotationSpeed = I(-2)
            /\ gears[leaf].rotationSpeed = I(4)

\* C3 witness: the three-level tree, built with two different azimuths
C3_Witness ==
    \E root \in Ids, mid \in Ids, leaf \in Ids :
        /\ Chain(root, mid, leaf)
        /\ gears[mid].angle = 1
        /\ gears[leaf].angle = 0

\* C4: in every reachable state each gear with a pinion has the same module
\* as that pinion (a gear of another module is rejected).
C4_SameModuleAsPinion ==
    \A g \in Ids :
        gears[g].pinion # NoPinion => gears[g].mod = gears[gears[g].pinion].mod

\* C5: the pinion relation is a well-formed tree: g has pinion p exactly when
\* g is in p.childGears, each gear is in the childGears of at most one gear,
\* and no gear is its own transitive pinion.
C5_WellFormedTree ==
    /\ \A g \in Ids, p \in Ids : (gears[g].pinion = p) <=> (g \in gears[p].childGears)
    /\ \A g \in Ids : Cardinality({p \in Ids : g \in gears[p].childGears}) <= 1
    /\ \A g \in Ids : g \notin TransitivePinions(g, Len(gears))

\* C6: generateInvoluteCurve(b, m) with b > 0 and m >= b returns at least 2
\* points, the first the t = 0 point (b, 0) and the last the end point, at
\* distance m from the origin.
C6_InvoluteCurve ==
    pc = "done" =>
        /\ Len(pointsArray) >= 2
        /\ pointsArray[1].tSq = I(0)
        /\ pointsArray[1].lengthSq = I(baseRadius * baseRadius)
        /\ pointsArray[Len(pointsArray)].lengthSq = I(maxRadius * maxRadius)

\* C7: g.driveBy(a) adds a * g.rotationSpeed to g.rotation and changes nothing
\* else: no other gear, and no other field of g.
C7_DriveByFrame ==
    [][\A g \in Ids, a \in DriveAngles :
          DriveBy(g, a) =>
              /\ Len(gears') = Len(gears)
              /\ \A h \in Ids \ {g} : gears'[h] = gears[h]
              /\ rotation(gears'[g]) =
                     RAdd(rotation(gears[g]), RMul(I(a), gears[g].rotationSpeed))
              /\ gears'[g].x = gears[g].x /\ gears'[g].y = gears[g].y
              /\ gears'[g].angle = gears[g].angle
              /\ gears'[g].ratio = gears[g].ratio
              /\ gears'[g].rotationSpeed = gears[g].rotationSpeed
              /\ gears'[g].childGears = gears[g].childGears
              /\ gears'[g].pinion = gears[g].pinion]_vars

\* C7 witness: a gear with a pinion and a child was driven by 1 after both
\* attachments; its pinion and its child still have the rotation they had.
C7_Witness ==
    \E p \in Ids, g \in Ids, c \in Ids :
        /\ Attached(g) /\ gears[g].pinion = p
        /\ Attached(c) /\ gears[c].pinion = g
        /\ gears[p].pinion = NoPinion
        /\ rotation(gears[p]) = I(0)
        /\ rotation(gears[g]) =
               RAdd(RSub(LockPhase(g), RMul(gears[g].ratio, rotation(gears[p]))),
                    gears[g].rotationSpeed)
        /\ rotation(gears[c]) =
               RSub(LockPhase(c), RMul(gears[c].ratio, LockPhase(g)))

\* C8: right after c = p.addGear(teeth, angle), c.rotation is
\* PI + angle + (angle - p.rotation) * c.ratio for the rotation p had at that
\* time; and whenever no round of uniform driving is under way, every attached
\* gear c with pinion p has c.rotation + c.ratio * p.rotation equal to
\* PI + angle + angle * c.ratio.
C8_PhaseLock ==
    /\ [][\A p \in Ids, teeth \in ChildTeeth, angle \in Azimuths :
             AddGear(p, teeth, angle) =>
                 LET c == gears'[Len(gears')]
                 IN  rotation(c) =
                         RAdd(RAdd(PI, I(angle)),
                              RMul(RSub(I(angle), rotation(gears[p])), c.ratio))]_vars
    /\ [](pending = {} =>
             \A c \in Ids :
                 Attached(c) =>
                     RAdd(rotation(gears[c]),
                          RMul(gears[c].ratio, rotation(gears[gears[c].pinion])))
                         = LockPhase(c))

\* C8 witness: after two complete rounds, of angles 1 and 3, a root that has
\* turned by 4 and a gear attached to it at azimuth 1, still in phase.
C8_Witness ==
    \E c \in Ids :
        /\ pending = {}
        /\ nrounds = MaxRounds
        /\ Attached(c)
        /\ gears[gears[c].pinion].pinion = NoPinion
        /\ gears[c].angle = 1
        /\ rotation(gears[gears[c].pinion]) = I(4)
        /\ rotation(gears[c]) = RSub(LockPhase(c), RMul(gears[c].ratio, I(4)))

\* C9: every gear g attached to a pinion p has
\* g.x = p.x + d * cos(g.angle) and g.y = p.y + d * sin(g.angle), d being the
\* sum of the two pitch radii, after any addGear, setPosition and driveBy.
C9_Tangency ==
    \A g \in Ids :
        Attached(g) =>
            /\ gears[g].x = RAdd(gears[gears[g].pinion].x,
                                 RMul(PitchRadiiSum(g), I(cos(gears[g].angle))))
            /\ gears[g].y = RAdd(gears[gears[g].pinion].y,
                                 RMul(PitchRadiiSum(g), I(sin(gears[g].angle))))

\* C10: reset() leaves rotation, x, y, the rendered body's position (equal to
\* x, y), angle, ratio, rotationSpeed, pinion and childGears as they were.
C10_ResetKeepsTransform ==
    [][\A g \in Ids :
          Reset(g) =>
              /\ rotation(gears'[g]) = rotation(gears[g])
              /\ gears'[g].x = gears[g].x /\ gears'[g].y = gears[g].y
              /\ gears'[g].mesh.x = gears[g].mesh.x
              /\ gears'[g].mesh.y = gears[g].mesh.y
              /\ gears'[g].angle = gears[g].angle
              /\ gears'[g].ratio = gears[g].ratio
              /\ gears'[g].rotationSpeed = gears[g].rotationSpeed
              /\ gears'[g].pinion = gears[g].pinion
              /\ gears'[g].childGears = gears[g].childGears]_vars

====
